---- MODULE Spec2Model ----
(***************************************************************************)
(* Model of the newsletter parsing engine of spazio_alfieri_bot            *)
(* (src/src/parser.rs): the subject-line boundary resolver, the walk over  *)
(* the title blocks of the HTML body and the date-entry resolver.          *)
(*                                                                         *)
(* The two pest grammars (resources/subject_line.pest and                  *)
(* resources/date_entry.pest) are not part of the modelled sources: the    *)
(* model starts from the pairs they emit.  A subject line is the sequence  *)
(* of its day_number / month pairs, a schedule text is the sequence of its *)
(* date_entry pairs, each with the inner pairs day_number, month, time*    *)
(* and additional_details already grouped.                                 *)
(*                                                                         *)
(* A DateTime<Tz> in Europe/Rome is the record of its local fields; only   *)
(* unambiguous local times are ever built (`.single()`), and on those the  *)
(* order of the instants is the lexicographic order of the local fields.   *)
(***************************************************************************)
EXTENDS Integers, Sequences, FiniteSets, TLC

VARIABLES
    pc,                \* position of parse_email_body
    year,              \* Utc::now().year() read by parse_subject_line_dates
    subject,           \* the pairs of the subject line still to be parsed / parsed
    date_boundaries,   \* Vec<DateTime<Tz>> returned by parse_subject_line_dates
    dom,               \* the title nodes selected so far, each with its schedule text
    newsletter_link,   \* href of the newsletter link anchor
    entries,           \* Vec<ProgrammingEntry> built by parse_html
    date_entries,      \* Vec<DateEntry> of the title block being parsed
    pairs_to_reparse,  \* deferred pairs of the title block being parsed
    result,            \* what parse_email_body returned (or that it panicked)
    now,               \* Utc::now() as read by main.rs, in Europe/Rome local fields
    render_entry,      \* the ProgrammingEntry given to format_programming_entry
    rendered,          \* the text format_programming_entry returned
    us_pc,             \* position of update_schedules
    us_newsletter,     \* the NewsletterEntry given to update_schedules
    schedules,         \* the schedules held by crontap
    last_schedule,     \* update_schedules: bot_schedules.pop()
    added_schedule,    \* update_schedules: the AddSchedule built from next_update_time
    deletions,         \* ids of the schedules the spawned tasks have still to delete
    us_result,         \* what update_schedules returned
    mail_pc,           \* position of receive_newsletter_email / handle_email
    payload,           \* the MailgunWebhookBody of the delivery
    newsletter_entry,  \* handle_email: the parsed NewsletterEntry
    saved_newsletter,  \* persist_newsletter_entry: id of the saved newsletter row
    saved_programs,    \* persist_newsletter_entry: ids of the saved program rows
    db,                \* the tables newsletter, program and entry
    channel,           \* messages sent to channel_id
    error_chat,        \* messages sent to error_chat_id
    mail_error,        \* the error handle_email returned
    response,          \* what receive_newsletter_email returned
    parked,            \* the local state of the deliveries that wait at an await
    upd_pc,            \* position of update_latest_newsletter_message / do_update
    bearer,            \* the AuthBearer token of the update request
    latest,            \* do_update: the fetched newsletter, its message id and text
    edit_result,       \* what the spawned edit_message_text task returned
    upd_error,         \* the error do_update returned
    upd_response,      \* what update_latest_newsletter_message returned
    log                \* the lines written with error!

parserVars == <<pc, year, subject, date_boundaries, dom, newsletter_link, entries,
                date_entries, pairs_to_reparse, result>>

renderVars == <<render_entry, rendered>>

scheduleVars == <<us_pc, us_newsletter, schedules, last_schedule, added_schedule,
                  deletions, us_result>>

mailVars == <<mail_pc, payload, newsletter_entry, saved_newsletter, saved_programs,
              db, channel, mail_error, response>>

updateVars == <<upd_pc, bearer, latest, edit_result, upd_error, upd_response>>

\* The state of main.rs, which parse_email_body neither reads nor writes
mainVars == <<now, renderVars, scheduleVars, mailVars, error_chat, parked, updateVars,
              log>>

vars == <<parserVars, mainVars>>

----------------------------------------------------------------------------
(* Bounds of the explored inputs *)

MaxSubjectPairs == 4   \* pairs in a subject line
MaxTitles == 2         \* title headings in a document
MaxPairs == 2          \* date_entry pairs in a document
MaxTimes == 2          \* time pairs in a document

----------------------------------------------------------------------------
(* Option / Result values *)

None == [none |-> TRUE]

Some(x) == [some |-> x]

Ok(v) == [kind |-> "ok", value |-> v]

Err(msg) == [kind |-> "err", msg |-> msg]

Panic(msg) == [kind |-> "panic", msg |-> msg]

\* format_programming_entry is not running
RenderIdle == render_entry = None /\ rendered = None

\* update_schedules is not running
SchedulesIdle ==
    /\ us_pc = "idle" /\ us_newsletter = None /\ schedules = <<>>
    /\ last_schedule = None /\ added_schedule = None /\ deletions = {}
    /\ us_result = None

\* receive_newsletter_email is not running
MailIdle ==
    /\ mail_pc = "idle" /\ payload = None /\ newsletter_entry = None
    /\ saved_newsletter = None /\ saved_programs = <<>>
    /\ db = [newsletter |-> <<>>, program |-> <<>>, entry |-> <<>>]
    /\ channel = <<>> /\ mail_error = None /\ response = None

\* update_latest_newsletter_message is not running
UpdateIdle ==
    /\ upd_pc = "idle" /\ bearer = None /\ latest = None
    /\ edit_result = None /\ upd_error = None /\ upd_response = None

\* No request is being served by main.rs
MainIdle ==
    /\ now = None /\ error_chat = <<>> /\ parked = <<>> /\ log = <<>>
    /\ RenderIdle /\ SchedulesIdle /\ MailIdle /\ UpdateIdle

\* parse_email_body is not running
ParserIdle ==
    /\ pc = "idle" /\ year = 2024 /\ subject = <<>> /\ date_boundaries = <<>>
    /\ dom = <<>> /\ newsletter_link = None /\ entries = <<>>
    /\ date_entries = <<>> /\ pairs_to_reparse = <<>> /\ result = None

----------------------------------------------------------------------------
(* Calendar: chrono and chrono_tz (Europe/Rome) as used by the parser *)

IsLeapYear(y) == (y % 4 = 0 /\ y % 100 # 0) \/ y % 400 = 0

DaysInMonth(y, m) ==
    CASE m \in {4, 6, 9, 11} -> 30
      [] m = 2 -> IF IsLeapYear(y) THEN 29 ELSE 28
      [] OTHER -> 31

\* 0 = Sunday (Sakamoto's method)
DayOfWeek(y, m, d) ==
    LET t == <<0, 3, 2, 5, 0, 3, 5, 1, 4, 6, 2, 4>>
        yy == IF m < 3 THEN y - 1 ELSE y
    IN  (yy + (yy \div 4) - (yy \div 100) + (yy \div 400) + t[m] + d) % 7

LastSunday(y, m) == DaysInMonth(y, m) - DayOfWeek(y, m, DaysInMonth(y, m))

\* Europe/Rome: the local hour 02:xx of the last Sunday of March does not
\* exist and that of the last Sunday of October occurs twice; chrono maps
\* both to a LocalResult that is not Single.
IsSingleLocal(dt) ==
    ~ (dt.month \in {3, 10} /\ dt.day = LastSunday(dt.year, dt.month) /\ dt.hour = 2)

ValidDate(y, m, d) == m \in 1..12 /\ d \in 1..DaysInMonth(y, m)

ValidTime(h, mi, s) == h \in 0..23 /\ mi \in 0..59 /\ s \in 0..59

FromLocal(dt) ==
    IF ValidDate(dt.year, dt.month, dt.day)
       /\ ValidTime(dt.hour, dt.minute, dt.second)
       /\ IsSingleLocal(dt)
    THEN dt
    ELSE None

\* Europe::Rome.with_ymd_and_hms(y, m, d, h, mi, s).single()
with_ymd_and_hms(y, m, d, h, mi, s) ==
    FromLocal([year |-> y, month |-> m, day |-> d,
               hour |-> h, minute |-> mi, second |-> s])

\* DateTime::with_day
with_day(dt, d) == FromLocal([dt EXCEPT !.day = d])

\* DateTime::with_year
with_year(dt, y) == FromLocal([dt EXCEPT !.year = y])

\* NaiveTime::from_hms_opt(h, mi, s) followed by DateTime::with_time(t).single()
with_time(dt, h, mi, s) ==
    FromLocal([dt EXCEPT !.hour = h, !.minute = mi, !.second = s])

DateKey(dt) == <<dt.year, dt.month, dt.day, dt.hour, dt.minute, dt.second>>

RECURSIVE LexLess(_, _)
LexLess(a, b) ==
    IF a = <<>> THEN FALSE
    ELSE IF Head(a) # Head(b) THEN Head(a) < Head(b)
    ELSE LexLess(Tail(a), Tail(b))

\* Ord on DateTime<Tz>
DateLess(a, b) == LexLess(DateKey(a), DateKey(b))

DateLeq(a, b) == ~ DateLess(b, a)

----------------------------------------------------------------------------
(* parser.rs: month_name_to_number *)

MonthNames == <<"gennaio", "febbraio", "marzo", "aprile", "maggio", "giugno",
                "luglio", "agosto", "settembre", "ottobre", "novembre", "dicembre">>

month_name_to_number(name) ==
    IF \E i \in 1..12 : MonthNames[i] = name
    THEN Ok(CHOOSE i \in 1..12 : MonthNames[i] = name)
    ELSE Err("Encountered invalid month")

----------------------------------------------------------------------------
(* parser.rs: parse_subject_line_dates *)

DayNumberPair(n) == [rule |-> "day_number", str |-> n]

MonthPair(name) == [rule |-> "month", str |-> name]

\* Variant: the position of a month token is never checked
UnexpectedMonth_Never(months, day_numbers) == FALSE

\* line 71
UnexpectedMonth(months, day_numbers) ==
    (months = <<>> /\ day_numbers = <<>>) \/ Len(day_numbers) > 2

\* Variant: only a missing day number is refused
WrongDayCount_TooFew(day_numbers) == Len(day_numbers) < 2

\* line 83
WrongDayCount(day_numbers) == Len(day_numbers) # 2

\* The loop over parsed_pairs: acc = [day_numbers, months, err]
RECURSIVE SubjectLoop(_, _)
SubjectLoop(pairs, acc) ==
    IF pairs = <<>> \/ acc.err # None THEN acc
    ELSE LET pair == Head(pairs) IN
         CASE pair.rule = "day_number" ->
                SubjectLoop(Tail(pairs),
                            [acc EXCEPT !.day_numbers = Append(@, pair.str)])
           [] pair.rule = "month" ->
                LET month_number == month_name_to_number(pair.str) IN
                IF month_number.kind # "ok"
                THEN [acc EXCEPT !.err = month_number]
                ELSE IF UnexpectedMonth(acc.months, acc.day_numbers)
                THEN [acc EXCEPT !.err = Err("Unexpected month input with invalid day numbers")]
                ELSE SubjectLoop(Tail(pairs),
                                 [acc EXCEPT !.months = Append(@, month_number.value)])
           [] OTHER -> SubjectLoop(Tail(pairs), acc)

\* Variant: the day numbers are paired with the months in reverse order
Zip_Reversed(a, b) ==
    LET n == IF Len(a) < Len(b) THEN Len(a) ELSE Len(b)
    IN  [i \in 1..n |-> <<a[i], b[n + 1 - i]>>]

\* day_numbers.into_iter().zip(months)
Zip(a, b) ==
    LET n == IF Len(a) < Len(b) THEN Len(a) ELSE Len(b)
    IN  [i \in 1..n |-> <<a[i], b[i]>>]

\* The loop building `dates`; stops at the first invalid calendar date
RECURSIVE SubjectDates(_, _, _)
SubjectDates(zipped, now_year, dates) ==
    IF zipped = <<>> THEN Ok(dates)
    ELSE LET day == Head(zipped)[1]
             month == Head(zipped)[2]
             date == with_ymd_and_hms(now_year, month, day, 0, 0, 0)
         IN  IF date = None
             THEN Err("Unable to get valid date for y-m-d")
             ELSE SubjectDates(Tail(zipped), now_year, Append(dates, date))

\* Variant: the second date is never re-anchored to the next year
YearCrossover_NoReanchor(dates, now_year) == dates[2]

\* Variant: the comparison of line 108 is inverted
YearCrossover_Inverted(dates, now_year) ==
    IF DateLess(dates[1], dates[2])
    THEN with_year(dates[2], now_year + 1)
    ELSE dates[2]

\* lines 108-110
YearCrossover(dates, now_year) ==
    IF DateLess(dates[2], dates[1])
    THEN with_year(dates[2], now_year + 1)
    ELSE dates[2]

parse_subject_line_dates(subject_line, now_year) ==
    LET acc == SubjectLoop(subject_line,
                           [day_numbers |-> <<>>, months |-> <<>>, err |-> None])
    IN
    IF acc.err # None THEN acc.err
    ELSE IF WrongDayCount(acc.day_numbers) THEN Err("Expected two day numbers")
    ELSE
      LET months == IF Len(acc.months) = 1
                    THEN Append(acc.months, acc.months[1])
                    ELSE acc.months
          built == SubjectDates(Zip(acc.day_numbers, months), now_year, <<>>)
      IN
      IF built.kind = "err" THEN built
      ELSE LET dates == built.value IN
           IF Len(dates) < 2 THEN Panic("index out of bounds")
           ELSE LET second == YearCrossover(dates, now_year) IN
                IF second = None THEN Panic("called Option::unwrap() on a None value")
                ELSE LET upper == with_time(second, 23, 59, 59) IN
                     IF upper = None THEN Panic("called LocalResult::unwrap() on a non-single value")
                     ELSE Ok(<<dates[1], upper>>)

----------------------------------------------------------------------------
(* parser.rs: parse_date_entry *)

\* A date_entry pair as emitted by DateEntryParser, inner pairs grouped
DateEntryPair(day, month, times, details) ==
    [rule |-> "date_entry", day_number |-> day, month |-> month,
     times |-> times, additional_details |-> details]

Time(h, mi) == [hours |-> h, minutes |-> mi]

Parsed(v) == [kind |-> "ok", variant |-> "Parsed", value |-> v]

Uncertain(pair) == [kind |-> "ok", variant |-> "Uncertain", value |-> pair]

\* Variant: the candidate in upper's month is tried before the one in lower's
candidate_date_UpperFirst(day, lower_bound, upper_bound, hours, minutes) ==
    LET first_candidate_date == with_day(lower_bound, day)
        second_candidate_date == with_day(upper_bound, day)
        second == IF second_candidate_date # None
                     /\ DateLeq(second_candidate_date, upper_bound)
                     /\ DateLeq(lower_bound, second_candidate_date)
                  THEN second_candidate_date ELSE None
        either == IF second # None THEN second ELSE first_candidate_date
        bounded == IF either # None /\ DateLeq(lower_bound, either)
                      /\ DateLeq(either, upper_bound)
                   THEN either ELSE None
    IN  IF bounded = None THEN None
        ELSE with_time(bounded, hours, minutes, 0)

\* The closure mapped over `times`: the resolved date of one time, or None
\* where the closure yields an Err
candidate_date(day, lower_bound, upper_bound, hours, minutes) ==
    LET first_candidate_date == with_day(lower_bound, day)
        second_candidate_date == with_day(upper_bound, day)
        first == IF first_candidate_date # None
                    /\ DateLeq(lower_bound, first_candidate_date)
                 THEN first_candidate_date ELSE None
        either == IF first # None THEN first ELSE second_candidate_date
        bounded == IF either # None /\ DateLeq(either, upper_bound)
                   THEN either ELSE None
    IN  IF bounded = None THEN None
        ELSE with_time(bounded, hours, minutes, 0)

\* Variant: the resolved dates are collected in reverse order
RECURSIVE filter_map_ok_Reversed(_)
filter_map_ok_Reversed(results) ==
    IF results = <<>> THEN <<>>
    ELSE IF Head(results) = None THEN filter_map_ok_Reversed(Tail(results))
    ELSE filter_map_ok_Reversed(Tail(results)) \o <<Head(results)>>

\* .collect::<Vec<Result>>().into_iter().filter_map(Result::ok)
RECURSIVE filter_map_ok(_)
filter_map_ok(results) ==
    IF results = <<>> THEN <<>>
    ELSE IF Head(results) = None THEN filter_map_ok(Tail(results))
    ELSE <<Head(results)>> \o filter_map_ok(Tail(results))

DateEntry(date, details) == [date |-> date, additional_details |-> details]

\* Variant: a pair without day or without times yields no entry and no error
parse_date_entry_SkipMissing(pair, lower_bound, upper_bound) ==
    IF pair.month # None /\ month_name_to_number(pair.month.some).kind # "ok"
    THEN month_name_to_number(pair.month.some)
    ELSE IF pair.day_number # None /\ pair.times # <<>>
    THEN LET day == pair.day_number.some
             results == [i \in 1..Len(pair.times) |->
                            candidate_date(day, lower_bound, upper_bound,
                                           pair.times[i].hours,
                                           pair.times[i].minutes)]
             dates == filter_map_ok(results)
         IN  Parsed([i \in 1..Len(dates) |->
                        DateEntry(dates[i], pair.additional_details)])
    ELSE Parsed(<<>>)

parse_date_entry(pair, lower_bound, upper_bound) ==
    IF pair.month # None /\ month_name_to_number(pair.month.some).kind # "ok"
    THEN month_name_to_number(pair.month.some)
    ELSE IF pair.day_number # None /\ pair.times # <<>>
    THEN LET day == pair.day_number.some
             results == [i \in 1..Len(pair.times) |->
                            candidate_date(day, lower_bound, upper_bound,
                                           pair.times[i].hours,
                                           pair.times[i].minutes)]
             dates == filter_map_ok(results)
         IN  Parsed([i \in 1..Len(dates) |->
                        DateEntry(dates[i], pair.additional_details)])
    ELSE Err("Missing required data")

----------------------------------------------------------------------------
(* parser.rs: parse_html, one step per selected node / parsed pair *)

\* Text of the k-th title heading of the document
Titles == <<"LA SINDROME DEGLI AMORI PASSATI", "MARIA MONTESSORI",
            "MARIUS E JEANNETTE", "VERMIGLIO">>

ProgrammingEntry(title, des) == [title |-> title, date_entries |-> des]

NewsletterEntry(pes, link) == [programming_entries |-> pes, newsletter_link |-> link]

\* The loop over pairs_to_reparse: acc = Ok(date_entries) or an Err
RECURSIVE ReparseLoop(_, _, _)
ReparseLoop(pairs, bounds, acc) ==
    IF pairs = <<>> \/ acc.kind # "ok" THEN acc
    ELSE LET pair == Head(pairs) IN
         IF pair.rule # "date_entry" THEN Err("Unexpected top-level rule")
         ELSE LET parsed == parse_date_entry(pair, bounds[1], bounds[2]) IN
              IF parsed.kind # "ok" THEN Err("Unable to parse date entry")
              ELSE IF parsed.variant = "Parsed"
              THEN ReparseLoop(Tail(pairs), bounds, Ok(acc.value \o parsed.value))
              ELSE Err("Unable to parse month from input")

RECURSIVE SumTimes(_)
SumTimes(text) ==
    IF text = <<>> THEN 0
    ELSE (IF Head(text).rule = "date_entry" THEN Len(Head(text).times) ELSE 0)
         + SumTimes(Tail(text))

RECURSIVE DomPairs(_)
DomPairs(d) == IF d = <<>> THEN <<>> ELSE Head(d).text \o DomPairs(Tail(d))

----------------------------------------------------------------------------
(* Explored inputs *)

\* 2024 is a leap year, 2025 is not
Years == {2024, 2025}

SubjectDayNumbers == {2, 27, 29, 31}

SubjectMonths == {"febbraio", "settembre", "dicembre", "gennaio"}

SubjectPairs ==
    {DayNumberPair(n) : n \in SubjectDayNumbers}
    \cup {MonthPair(m) : m \in SubjectMonths}
    \cup {[rule |-> "EOI", str |-> ""]}

RECURSIVE SeqsUpTo(_, _)
SeqsUpTo(S, n) ==
    IF n = 0 THEN {<<>>}
    ELSE LET shorter == SeqsUpTo(S, n - 1)
         IN  shorter \cup {Append(s, x) : s \in shorter, x \in S}

SubjectLines == SeqsUpTo(SubjectPairs, MaxSubjectPairs)

\* Subject lines of the newsletters whose bodies are explored
NewsletterSubjects ==
    { <<DayNumberPair(25), MonthPair("settembre"), DayNumberPair(2), MonthPair("ottobre")>>,
      <<DayNumberPair(25), DayNumberPair(30), MonthPair("settembre")>>,
      <<DayNumberPair(27), MonthPair("dicembre"), DayNumberPair(3), MonthPair("gennaio")>>,
      <<DayNumberPair(27), MonthPair("ottobre"), DayNumberPair(27), MonthPair("novembre")>>,
      <<DayNumberPair(25), DayNumberPair(2)>>,
      <<DayNumberPair(31), MonthPair("settembre"), DayNumberPair(2), MonthPair("ottobre")>>,
      <<DayNumberPair(27), MonthPair("dicembre"), DayNumberPair(29), MonthPair("febbraio")>> }

DayNumbers == {1, 27, 31}

Months == {"settembre"}

\* 02:30 occurs twice in Europe/Rome on 27 October 2024
TimeValues == {Time(17, 0), Time(2, 30), Time(24, 60)}

Details == {"versione originale"}

\* date_entry pairs with a day and times
FullPairs ==
    {DateEntryPair(Some(d), m, t, a) :
        d \in DayNumbers,
        m \in {Some(n) : n \in Months} \cup {None},
        t \in SeqsUpTo(TimeValues, MaxTimes) \ {<<>>},
        a \in {Some(x) : x \in Details} \cup {None}}

\* date_entry pairs that lack the day, the times or both
PartialPairs ==
    {DateEntryPair(None, None, <<t>>, None) : t \in TimeValues}
    \cup {DateEntryPair(Some(d), None, <<>>, None) : d \in DayNumbers}
    \cup {DateEntryPair(None, None, <<>>, None)}

\* The explored pairs: the short form `day time+`, the long form
\* `day month time+ details`, and the partial ones
DateEntryPairs ==
    {p \in FullPairs : (p.month = None) = (p.additional_details = None)}
    \cup PartialPairs

\* The top-level pairs with at most n times
PairsUpTo ==
    [n \in 0..MaxTimes |->
        {p \in DateEntryPairs : Len(p.times) <= n} \cup {[rule |-> "EOI"]}]

----------------------------------------------------------------------------
(* parse_email_body *)

InitWith(years, subjects) ==
    /\ pc = "subject"
    /\ year \in years
    /\ subject \in subjects
    /\ date_boundaries = <<>>
    /\ dom = <<>>
    /\ newsletter_link = None
    /\ entries = <<>>
    /\ date_entries = <<>>
    /\ pairs_to_reparse = <<>>
    /\ result = None
    /\ MainIdle

Init == InitWith({2024}, NewsletterSubjects)

InitSubject == InitWith(Years, SubjectLines)

Return(r) == /\ result' = r
             /\ pc' = "done"

\* parse_email_body, line 50
ParseSubject ==
    /\ pc = "subject"
    /\ LET r == parse_subject_line_dates(subject, year) IN
       IF r.kind = "ok"
       THEN /\ date_boundaries' = r.value
            /\ pc' = "link"
            /\ UNCHANGED result
       ELSE /\ Return(r)
            /\ UNCHANGED date_boundaries
    /\ UNCHANGED <<year, subject, dom, newsletter_link, entries, date_entries,
                   pairs_to_reparse>>
    /\ UNCHANGED mainVars

\* parse_html, lines 118-136: the boundary pattern and the link anchor
SelectLink ==
    /\ pc = "link"
    /\ \E anchor \in {"absent", "no_href", "href"} :
         IF Len(date_boundaries) # 2
         THEN Return(Err("Invalid date boundaries")) /\ UNCHANGED newsletter_link
         ELSE IF anchor = "absent"
         THEN Return(Err("Could not find newsletter link!")) /\ UNCHANGED newsletter_link
         ELSE IF anchor = "no_href"
         THEN Return(Err("Newsletter link doesn't have href attribute!"))
              /\ UNCHANGED newsletter_link
         ELSE /\ newsletter_link' = Some("https://newsletter/link")
              /\ pc' = "titles"
              /\ UNCHANGED result
    /\ UNCHANGED <<year, subject, date_boundaries, dom, entries, date_entries,
                   pairs_to_reparse>>
    /\ UNCHANGED mainVars

\* parse_html, lines 138-164: the next title node, its box and its text
SelectTitle ==
    /\ pc = "titles"
    /\ Len(dom) < MaxTitles
    /\ \E has_text \in BOOLEAN, box \in {"tbody", "table", "none"}, parses \in BOOLEAN :
         IF ~ has_text
         THEN Return(Err("Could not find text in selected element"))
              /\ UNCHANGED <<dom, date_entries, pairs_to_reparse>>
         ELSE IF box # "tbody"
         THEN Return(Err("Invalid element: could not find grandparent tbody box"))
              /\ UNCHANGED <<dom, date_entries, pairs_to_reparse>>
         ELSE IF ~ parses
         THEN Return(Err("Unable to parse text"))
              /\ UNCHANGED <<dom, date_entries, pairs_to_reparse>>
         ELSE /\ dom' = Append(dom, [title |-> Titles[Len(dom) + 1], text |-> <<>>])
              /\ date_entries' = <<>>
              /\ pairs_to_reparse' = <<>>
              /\ pc' = "pairs"
              /\ UNCHANGED result
    /\ UNCHANGED <<year, subject, date_boundaries, newsletter_link, entries>>
    /\ UNCHANGED mainVars

\* parse_html, lines 165-180: one iteration of the loop over parsed_pairs
ParsePair ==
    /\ pc = "pairs"
    /\ Len(DomPairs(dom)) < MaxPairs
    /\ \E pair \in PairsUpTo[MaxTimes - SumTimes(DomPairs(dom))] :
         /\ dom' = [dom EXCEPT ![Len(dom)].text = Append(@, pair)]
         /\ IF pair.rule # "date_entry"
            THEN Return(Err("Unexpected top-level rule"))
                 /\ UNCHANGED <<date_entries, pairs_to_reparse>>
            ELSE LET parsed_date_entries ==
                         parse_date_entry(pair, date_boundaries[1], date_boundaries[2])
                 IN  IF parsed_date_entries.kind # "ok"
                     THEN Return(Err("Unable to parse date entry"))
                          /\ UNCHANGED <<date_entries, pairs_to_reparse>>
                     ELSE /\ IF parsed_date_entries.variant = "Parsed"
                             THEN /\ date_entries' = date_entries \o parsed_date_entries.value
                                  /\ UNCHANGED pairs_to_reparse
                             ELSE /\ pairs_to_reparse' =
                                        Append(pairs_to_reparse, parsed_date_entries.value)
                                  /\ UNCHANGED date_entries
                          /\ UNCHANGED <<pc, result>>
    /\ UNCHANGED <<year, subject, date_boundaries, newsletter_link, entries>>
    /\ UNCHANGED mainVars

\* parse_html, lines 182-204: the loop over pairs_to_reparse and the push
PushEntry ==
    /\ pc = "pairs"
    /\ LET r == ReparseLoop(pairs_to_reparse, date_boundaries, Ok(date_entries)) IN
       IF r.kind # "ok"
       THEN Return(r) /\ UNCHANGED <<entries, date_entries>>
       ELSE /\ date_entries' = r.value
            /\ entries' = Append(entries, ProgrammingEntry(dom[Len(dom)].title, r.value))
            /\ pc' = "titles"
            /\ UNCHANGED result
    /\ UNCHANGED <<year, subject, date_boundaries, dom, newsletter_link,
                   pairs_to_reparse>>
    /\ UNCHANGED mainVars

\* parse_html, lines 206-209
ReturnNewsletter ==
    /\ pc = "titles"
    /\ Return(Ok(NewsletterEntry(entries, newsletter_link.some)))
    /\ UNCHANGED <<year, subject, date_boundaries, dom, newsletter_link, entries,
                   date_entries, pairs_to_reparse>>
    /\ UNCHANGED mainVars

Next ==
    \/ ParseSubject
    \/ SelectLink
    \/ SelectTitle
    \/ ParsePair
    \/ PushEntry
    \/ ReturnNewsletter

Spec == Init /\ [][Next]_vars

NextSubject == ParseSubject

SpecSubject == InitSubject /\ [][NextSubject]_vars

----------------------------------------------------------------------------
(* main.rs: explored newsletters and times *)

MaxDates == 2       \* DateEntry values in a newsletter
MaxPrograms == 2    \* ProgrammingEntry values in a newsletter
MaxSchedules == 3   \* schedules held by crontap when update_schedules starts

\* Show times of the explored newsletters
ShowDates ==
    { with_ymd_and_hms(2024, 9, 27, 17, 0, 0),
      with_ymd_and_hms(2024, 9, 29, 19, 30, 0),
      with_ymd_and_hms(2024, 10, 1, 21, 15, 0) }

\* Values of Utc::now(): before, at, between and after the show times
Nows ==
    { with_ymd_and_hms(2024, 9, 26, 12, 0, 0),
      with_ymd_and_hms(2024, 9, 27, 17, 0, 0),
      with_ymd_and_hms(2024, 9, 30, 8, 0, 0),
      with_ymd_and_hms(2024, 10, 5, 9, 0, 0) }

\* The date_entries lists with at most n entries, in any order
DateEntryLists ==
    [n \in 0..MaxDates |->
        {[i \in 1..Len(ds) |-> DateEntry(ds[i], None)] : ds \in SeqsUpTo(ShowDates, n)}]

RECURSIVE CountDates(_)
CountDates(pes) ==
    IF pes = <<>> THEN 0
    ELSE Len(Head(pes).date_entries) + CountDates(Tail(pes))

\* The programming_entries lists with at most k entries and MaxDates dates in all
RECURSIVE ProgrammingLists(_)
ProgrammingLists(k) ==
    IF k = 0 THEN {<<>>}
    ELSE LET shorter == ProgrammingLists(k - 1)
         IN  shorter \cup
             UNION {{Append(pes, ProgrammingEntry(Titles[Len(pes) + 1], des)) :
                        des \in DateEntryLists[MaxDates - CountDates(pes)]} :
                    pes \in {q \in shorter : Len(q) = k - 1}}

Newsletters ==
    {NewsletterEntry(pes, "https://newsletter/link") : pes \in ProgrammingLists(MaxPrograms)}

\* The entries given to format_programming_entry, with and without details
RenderEntries ==
    {ProgrammingEntry(Titles[1], des) :
        des \in {[i \in 1..Len(ds) |-> DateEntry(ds[i].date, ds[i].details)] :
                    ds \in SeqsUpTo([date : ShowDates,
                                     details : {None, Some("versione originale")}],
                                    MaxDates)}}

----------------------------------------------------------------------------
(* main.rs: format_programming_entry and make_message *)

\* teloxide::utils::markdown::escape
markdown_escape(text) == [escaped |-> text]

\* lines 559-587: the text of one date and its date
FormatDate(date_entry, t) ==
    [strikethrough |-> DateLess(date_entry.date, t),
     date |-> <<date_entry.date.day, date_entry.date.month, date_entry.date.year>>,
     time |-> <<date_entry.date.hour, date_entry.date.minute>>,
     details |-> IF date_entry.additional_details = None THEN None
                 ELSE Some(markdown_escape(date_entry.additional_details.some)),
     bell |-> FALSE]

\* lines 590-592: index of the date that gets the bell, 0 if none
nearest_date(des, t) ==
    LET found == {i \in 1..Len(des) : DateLeq(t, des[i].date)}
    IN  IF found = {} THEN 0
        ELSE CHOOSE i \in found : \A j \in found : i <= j

format_programming_entry(entry, t) ==
    LET des == entry.date_entries
        nearest == nearest_date(des, t)
    IN  [title |-> markdown_escape(entry.title),
         dates |-> [i \in 1..Len(des) |->
                       IF i = nearest
                       THEN [FormatDate(des[i], t) EXCEPT !.bell = TRUE]
                       ELSE FormatDate(des[i], t)]]

make_message(entry, t) ==
    [entries |-> [i \in 1..Len(entry.programming_entries) |->
                     format_programming_entry(entry.programming_entries[i], t)],
     link |-> entry.newsletter_link]

InitRender ==
    /\ UpdateIdle /\ parked = <<>> /\ log = <<>>
    /\ ParserIdle /\ SchedulesIdle /\ MailIdle
    /\ error_chat = <<>>
    /\ now \in Nows
    /\ render_entry \in RenderEntries
    /\ rendered = None

FormatProgrammingEntry ==
    /\ rendered = None
    /\ render_entry # None
    /\ rendered' = format_programming_entry(render_entry, now)
    /\ UNCHANGED <<parserVars, updateVars, parked, log>>
    /\ UNCHANGED <<now, render_entry, scheduleVars, mailVars, error_chat>>

NextRender == FormatProgrammingEntry

SpecRender == InitRender /\ [][NextRender]_vars

----------------------------------------------------------------------------
(* main.rs: update_schedules *)

BOT_SCHEDULE_LABEL == "bot_schedule"

\* A schedule as crontap lists it
Schedule(id, label, interval) == [id |-> id, label |-> label, interval |-> interval]

\* The schedules held by crontap before the call, ids in list order
ScheduleLists ==
    {[i \in 1..Len(labels) |-> Schedule(i, labels[i], <<0, 9, 1, 1, "*">>)] :
        labels \in SeqsUpTo({BOT_SCHEDULE_LABEL, "other"}, MaxSchedules)}

\* .flat_map(|p| p.date_entries).map(|d| d.date)
RECURSIVE FlatDates(_)
FlatDates(pes) ==
    IF pes = <<>> THEN <<>>
    ELSE [i \in 1..Len(Head(pes).date_entries) |-> Head(pes).date_entries[i].date]
         \o FlatDates(Tail(pes))

\* Variant: the dates are searched in the order of the newsletter, unsorted
next_update_time_Unsorted(entry, t) ==
    LET dates == FlatDates(entry.programming_entries)
        found == {i \in 1..Len(dates) : DateLeq(t, dates[i])}
    IN  IF found = {} THEN None
        ELSE Some(dates[CHOOSE i \in found : \A j \in found : i <= j])

\* lines 476-482: .sorted().find(|d| d >= &Utc::now())
next_update_time(entry, t) ==
    LET dates == FlatDates(entry.programming_entries)
        found == {dates[i] : i \in {j \in 1..Len(dates) : DateLeq(t, dates[j])}}
    IN  IF found = {} THEN None
        ELSE Some(CHOOSE d \in found : \A e \in found : DateLeq(d, e))

\* lines 493-508: the cron expression "minute hour day month *"
AddSchedule(next) ==
    [interval |-> <<next.minute, next.hour, next.day, next.month, "*">>,
     label |-> BOT_SCHEDULE_LABEL,
     timezone |-> "Europe/Rome"]

ReturnSchedules(r) ==
    /\ us_result' = r
    /\ us_pc' = "done"

\* lines 420-510: list_schedules, the bot schedules, the spawned deletions
\* and the choice of next_update_time, up to the await of the update
ListSchedules ==
    /\ us_pc = "list"
    /\ \E listed \in BOOLEAN :
         LET bot_schedules == SelectSeq(schedules, LAMBDA x : x.label = BOT_SCHEDULE_LABEL)
             next == next_update_time(us_newsletter, now)
         IN
         IF ~ listed
         THEN /\ ReturnSchedules(Err("Unable to list schedules from crontap"))
              /\ UNCHANGED <<last_schedule, added_schedule, deletions>>
         ELSE IF bot_schedules = <<>>
         THEN /\ ReturnSchedules(Err("Unable to find any bot schedule"))
              /\ UNCHANGED <<last_schedule, added_schedule, deletions>>
         ELSE /\ last_schedule' = Some(bot_schedules[Len(bot_schedules)])
              /\ deletions' = deletions \cup
                     {bot_schedules[i].id : i \in 1..(Len(bot_schedules) - 1)}
              /\ IF next = None
                 THEN /\ ReturnSchedules(Ok(<<>>))
                      /\ UNCHANGED added_schedule
                 ELSE /\ added_schedule' = Some(AddSchedule(next.some))
                      /\ us_pc' = "update"
                      /\ UNCHANGED us_result
    /\ UNCHANGED <<parserVars, updateVars, parked, log>>
    /\ UNCHANGED <<now, renderVars, us_newsletter, schedules, mailVars,
                   error_chat>>

\* lines 510-520: update_schedule_by_id on the last bot schedule
UpdateSchedule ==
    /\ us_pc = "update"
    /\ \E updated \in BOOLEAN :
         IF updated /\ \E i \in 1..Len(schedules) : schedules[i].id = last_schedule.some.id
         THEN /\ schedules' =
                    [i \in 1..Len(schedules) |->
                        IF schedules[i].id = last_schedule.some.id
                        THEN Schedule(schedules[i].id, added_schedule.some.label,
                                      added_schedule.some.interval)
                        ELSE schedules[i]]
              /\ ReturnSchedules(Ok(<<>>))
         ELSE /\ ReturnSchedules(Err("Error while updating schedule"))
              /\ UNCHANGED schedules
    /\ UNCHANGED <<parserVars, updateVars, parked, log>>
    /\ UNCHANGED <<now, renderVars, us_newsletter, last_schedule,
                   added_schedule, deletions, mailVars, error_chat>>

\* lines 444-472: one spawned task, after its sleep
DeleteSchedule ==
    /\ \E id \in deletions, deleted \in BOOLEAN, notified \in BOOLEAN :
         /\ deletions' = deletions \ {id}
         /\ IF deleted
            THEN /\ schedules' = SelectSeq(schedules, LAMBDA x : x.id # id)
                 /\ UNCHANGED <<error_chat, log>>
            ELSE /\ IF notified
                    THEN /\ error_chat' =
                              Append(error_chat, "Got error while deleting bot schedule")
                         /\ UNCHANGED log
                    ELSE /\ log' = Append(log, "Unable to send error message")
                         /\ UNCHANGED error_chat
                 /\ UNCHANGED schedules
    /\ UNCHANGED <<parserVars, updateVars, parked>>
    /\ UNCHANGED <<now, renderVars, us_pc, us_newsletter, last_schedule,
                   added_schedule, us_result, mailVars>>

InitSchedules ==
    /\ UpdateIdle /\ parked = <<>> /\ log = <<>>
    /\ ParserIdle /\ RenderIdle /\ MailIdle
    /\ error_chat = <<>>
    /\ now \in Nows
    /\ us_pc = "list"
    /\ us_newsletter \in Newsletters
    /\ schedules \in ScheduleLists
    /\ last_schedule = None /\ added_schedule = None /\ deletions = {}
    /\ us_result = None

NextSchedules ==
    \/ ListSchedules
    \/ UpdateSchedule
    \/ DeleteSchedule

SpecSchedules == InitSchedules /\ [][NextSchedules]_vars

----------------------------------------------------------------------------
(* main.rs: receive_newsletter_email *)

\* ServerState
mailgun_webhook_signing_key == "signing-key"

\* ALLOWED_SENDERS, each sender a sequence of the parts of its text
allowed_senders == {<<"news", "@", "spazioalfieri.it">>, <<"@", "cinema.it">>}

\* Hmac::<Sha256> of a message under a key, as the pair it is computed from
HmacSha256(key, message) == [key |-> key, message |-> message]

\* hex::encode of a byte string; a signature that is no hex text is NotHex
HexEncode(bytes) == [hex |-> bytes]

NotHex == [hex |-> None]

\* hex::decode
HexDecode(text) == IF text.hex = None THEN Err("Invalid character") ELSE Ok(text.hex)

\* Variant: the signature is only decoded, never compared
verify_mailgun_signature_DecodeOnly(signing_key, token, timestamp, signature) ==
    LET decoded == HexDecode(signature)
    IN  IF decoded.kind # "ok" THEN decoded ELSE Ok(<<>>)

\* lines 206-218
verify_mailgun_signature(signing_key, token, timestamp, signature) ==
    LET mac == HmacSha256(signing_key, ToString(timestamp) \o token)
        decoded == HexDecode(signature)
    IN  IF decoded.kind # "ok" THEN decoded
        ELSE IF decoded.value = mac THEN Ok(<<>>)
        ELSE Err("Unable to verify signature")

\* str::contains on the parts of a text
Contains(text, pattern) ==
    \E i \in 0..(Len(text) - Len(pattern)) :
        SubSeq(text, i + 1, i + Len(pattern)) = pattern

\* lines 237-241
SenderAllowed(from) == \E sender \in allowed_senders : Contains(from, sender)

\* The deliveries: sender, signed fields and what parse_email_body makes of
\* the body
Tokens == {"3", "23"}

Timestamps == {1, 12}

Signatures ==
    {HexEncode(HmacSha256(k, ToString(ts) \o tk)) :
        k \in {mailgun_webhook_signing_key, "other-key"},
        ts \in Timestamps, tk \in Tokens}
    \cup {NotHex}

Senders ==
    { <<"Spazio Alfieri <", "news", "@", "spazioalfieri.it", ">">>,
      <<"info", "@", "cinema.it">>,
      <<"news", "@", "spazioalfieri.com">>,
      <<>> }

MailNewsletters ==
    { NewsletterEntry(<<>>, "https://newsletter/link"),
      NewsletterEntry(
          <<ProgrammingEntry(Titles[1],
                <<DateEntry(with_ymd_and_hms(2024, 10, 1, 21, 15, 0), None),
                  DateEntry(with_ymd_and_hms(2024, 9, 27, 17, 0, 0),
                            Some("versione originale"))>>),
            ProgrammingEntry(Titles[2], <<>>)>>,
          "https://newsletter/link") }

\* Deliveries arrive before the first show or after the last one
MailNows ==
    { with_ymd_and_hms(2024, 9, 26, 12, 0, 0),
      with_ymd_and_hms(2024, 10, 5, 9, 0, 0) }

Payloads ==
    [from : Senders, token : {"3"}, timestamp : {12}, signature : Signatures,
     html_body : {Err("Unable to parse subject line")} \cup {Ok(n) : n \in MailNewsletters}]

\* The tables before the delivery: empty, or holding an earlier newsletter
Databases ==
    { [newsletter |-> <<>>, program |-> <<>>, entry |-> <<>>],
      [newsletter |-> <<[id |-> 1, link |-> "https://newsletter/link",
                         message_id |-> Some(1)]>>,
       program |-> <<>>, entry |-> <<>>],
      [newsletter |-> <<[id |-> 1, link |-> "https://newsletter/older",
                         message_id |-> Some(1)]>>,
       program |-> <<[id |-> 1, newsletter_id |-> 1, title |-> Titles[3]]>>,
       entry |-> <<>>] }

\* handle_email returned Err(e)
Fail(e) ==
    /\ mail_error' = e
    /\ mail_pc' = "failed"

\* lines 228-235
VerifySignature ==
    /\ mail_pc = "verify"
    /\ LET r == verify_mailgun_signature(mailgun_webhook_signing_key, payload.token,
                                         payload.timestamp, payload.signature)
       IN  IF r.kind = "ok"
           THEN mail_pc' = "sender" /\ UNCHANGED mail_error
           ELSE Fail(Err("Payload signature verification failed"))
    /\ UNCHANGED <<parserVars, updateVars, parked, log>>
    /\ UNCHANGED <<now, renderVars, scheduleVars, payload, newsletter_entry,
                   saved_newsletter, saved_programs, db, channel, response, error_chat>>

\* lines 237-246
CheckSender ==
    /\ mail_pc = "sender"
    /\ IF SenderAllowed(payload.from)
       THEN mail_pc' = "parse" /\ UNCHANGED mail_error
       ELSE Fail(Err("Got mail from unknown sender"))
    /\ UNCHANGED <<parserVars, updateVars, parked, log>>
    /\ UNCHANGED <<now, renderVars, scheduleVars, payload, newsletter_entry,
                   saved_newsletter, saved_programs, db, channel, response, error_chat>>

\* lines 248-249: parse_email_body on the body of the delivery
ParseBody ==
    /\ mail_pc = "parse"
    /\ IF payload.html_body.kind = "ok"
       THEN /\ newsletter_entry' = Some(payload.html_body.value)
            /\ mail_pc' = "persist"
            /\ UNCHANGED mail_error
       ELSE /\ Fail(Err("Could not parse email body"))
            /\ UNCHANGED newsletter_entry
    /\ UNCHANGED <<parserVars, updateVars, parked, log>>
    /\ UNCHANGED <<now, renderVars, scheduleVars, payload,
                   saved_newsletter, saved_programs, db, channel, response, error_chat>>

\* Variant: the link column is not unique
UniqueLink_Unchecked(rows, link) == TRUE

\* The unique key of newsletter.link: no row holds the link yet
UniqueLink(rows, link) == \A i \in 1..Len(rows) : rows[i].link # link

\* persist_newsletter_entry, lines 618-630: the newsletter row, link unique
SaveNewsletter ==
    /\ mail_pc = "persist"
    /\ \E saved \in BOOLEAN :
         LET link == newsletter_entry.some.newsletter_link
             id == Len(db.newsletter) + 1
         IN
         IF saved /\ UniqueLink(db.newsletter, link)
         THEN /\ db' = [db EXCEPT !.newsletter =
                           Append(@, [id |-> id, link |-> link, message_id |-> None])]
              /\ saved_newsletter' = Some(id)
              /\ mail_pc' = "programs"
              /\ UNCHANGED mail_error
         ELSE /\ Fail(Err("Unable to persist newsletter entry"))
              /\ UNCHANGED <<db, saved_newsletter>>
    /\ UNCHANGED <<parserVars, updateVars, parked, log>>
    /\ UNCHANGED <<now, renderVars, scheduleVars, payload, newsletter_entry,
                   saved_programs, channel, response, error_chat>>

\* The foreign keys of program and entry: every row names the id of a parent row
ForeignKey(rows, column, parents) ==
    \A i \in 1..Len(rows) : \E j \in 1..Len(parents) : parents[j].id = rows[i][column]

\* persist_newsletter_entry, lines 658-665: one iteration of the loop
SaveProgram ==
    /\ mail_pc = "programs"
    /\ Len(saved_programs) < Len(newsletter_entry.some.programming_entries)
    /\ \E saved \in BOOLEAN :
         LET e == newsletter_entry.some.programming_entries[Len(saved_programs) + 1]
             id == Len(db.program) + 1
             row == [id |-> id, newsletter_id |-> saved_newsletter.some,
                     title |-> e.title]
         IN
         IF saved /\ ForeignKey(<<row>>, "newsletter_id", db.newsletter)
         THEN /\ db' = [db EXCEPT !.program = Append(@, row)]
              /\ saved_programs' = Append(saved_programs, id)
              /\ UNCHANGED <<mail_pc, mail_error>>
         ELSE /\ Fail(Err("Unable to persist newsletter entry"))
              /\ UNCHANGED <<db, saved_programs>>
    /\ UNCHANGED <<parserVars, updateVars, parked, log>>
    /\ UNCHANGED <<now, renderVars, scheduleVars, payload, newsletter_entry,
                   saved_newsletter, channel, response, error_chat>>

\* Variant: every entry row names the program saved last
RECURSIVE EntryRows_LastProgram(_, _, _)
EntryRows_LastProgram(pes, program_ids, first_id) ==
    IF pes = <<>> \/ program_ids = <<>> THEN <<>>
    ELSE LET des == Head(pes).date_entries
             rows == [i \in 1..Len(des) |->
                         [id |-> first_id + i - 1,
                          program_id |-> program_ids[Len(program_ids)],
                          date |-> des[i].date, details |-> des[i].additional_details]]
         IN  rows \o EntryRows_LastProgram(Tail(pes), Tail(program_ids),
                                           first_id + Len(des))

\* The rows of entries_iter, lines 670-678
RECURSIVE EntryRows(_, _, _)
EntryRows(pes, program_ids, first_id) ==
    IF pes = <<>> \/ program_ids = <<>> THEN <<>>
    ELSE LET des == Head(pes).date_entries
             rows == [i \in 1..Len(des) |->
                         [id |-> first_id + i - 1, program_id |-> Head(program_ids),
                          date |-> des[i].date, details |-> des[i].additional_details]]
         IN  rows \o EntryRows(Tail(pes), Tail(program_ids), first_id + Len(des))

\* persist_newsletter_entry, lines 670-685: insert_many of all the entries
SaveEntries ==
    /\ mail_pc = "programs"
    /\ Len(saved_programs) = Len(newsletter_entry.some.programming_entries)
    /\ \E saved \in BOOLEAN :
         LET rows == EntryRows(newsletter_entry.some.programming_entries,
                               saved_programs, Len(db.entry) + 1)
         IN
         IF saved /\ ForeignKey(rows, "program_id", db.program)
         THEN /\ db' = [db EXCEPT !.entry = @ \o rows]
              /\ mail_pc' = "send"
              /\ UNCHANGED mail_error
         ELSE /\ Fail(Err("Unable to persist newsletter entry"))
              /\ UNCHANGED db
    /\ UNCHANGED <<parserVars, updateVars, parked, log>>
    /\ UNCHANGED <<now, renderVars, scheduleVars, payload, newsletter_entry,
                   saved_newsletter, saved_programs, channel, response, error_chat>>

\* lines 256-262
SendMessage ==
    /\ mail_pc = "send"
    /\ \E sent \in BOOLEAN :
         IF sent
         THEN /\ channel' = Append(channel,
                                   [id |-> Len(channel) + 1,
                                    text |-> make_message(newsletter_entry.some, now)])
              /\ mail_pc' = "message_id"
              /\ UNCHANGED mail_error
         ELSE /\ Fail(Err("Unable to send update message"))
              /\ UNCHANGED channel
    /\ UNCHANGED <<parserVars, updateVars, parked, log>>
    /\ UNCHANGED <<now, renderVars, scheduleVars, payload, newsletter_entry,
                   saved_newsletter, saved_programs, db, response, error_chat>>

\* lines 264-268
SaveMessageId ==
    /\ mail_pc = "message_id"
    /\ \E saved \in BOOLEAN :
         LET sent == {i \in 1..Len(channel) :
                        channel[i].text.link = newsletter_entry.some.newsletter_link}
             \* the message this delivery has sent
             message == channel[CHOOSE i \in sent : \A j \in sent : j <= i]
         IN
         IF saved
         THEN /\ db' = [db EXCEPT !.newsletter[saved_newsletter.some].message_id =
                           Some(message.id)]
              /\ mail_pc' = "schedules"
              /\ UNCHANGED mail_error
         ELSE /\ Fail(Err("Unable to update newsletter with message id"))
              /\ UNCHANGED db
    /\ UNCHANGED <<parserVars, updateVars, parked, log>>
    /\ UNCHANGED <<now, renderVars, scheduleVars, payload, newsletter_entry,
                   saved_newsletter, saved_programs, channel, response, error_chat>>

\* line 270: the call of update_schedules
CallUpdateSchedules ==
    /\ mail_pc = "schedules"
    /\ us_pc = "idle"
    /\ us_pc' = "list"
    /\ us_newsletter' = newsletter_entry.some
    /\ mail_pc' = "await_schedules"
    /\ UNCHANGED <<parserVars, updateVars, parked, log>>
    /\ UNCHANGED <<now, renderVars, schedules, last_schedule, added_schedule,
                   deletions, us_result, payload, newsletter_entry, saved_newsletter,
                   saved_programs, db, channel, mail_error, response, error_chat>>

\* lines 270-274: update_schedules returned
AwaitUpdateSchedules ==
    /\ mail_pc = "await_schedules"
    /\ us_pc = "done"
    /\ IF us_result.kind = "ok"
       THEN /\ mail_pc' = "done"
            /\ response' = Ok(<<>>)
            /\ UNCHANGED mail_error
       ELSE /\ Fail(Err("Unable to update schedules"))
            /\ UNCHANGED response
    /\ UNCHANGED <<parserVars, updateVars, parked, log>>
    /\ UNCHANGED <<now, renderVars, scheduleVars, payload, newsletter_entry,
                   saved_newsletter, saved_programs, db, channel, error_chat>>

\* Variant: the error of handle_email is returned after the notice was sent
SendErrorNotice_Propagate ==
    /\ mail_pc = "failed"
    /\ \E sent \in BOOLEAN :
         IF sent
         THEN /\ error_chat' = Append(error_chat, "Got error while handling email")
              /\ response' = mail_error
         ELSE /\ response' = Err("Unable to send error message")
              /\ UNCHANGED error_chat
    /\ log' = Append(log, mail_error.msg)
    /\ mail_pc' = "done"
    /\ UNCHANGED <<parserVars, updateVars, parked>>
    /\ UNCHANGED <<now, renderVars, scheduleVars, payload, newsletter_entry,
                   saved_newsletter, saved_programs, db, channel, mail_error>>

\* lines 277-289: the error notice
SendErrorNotice ==
    /\ mail_pc = "failed"
    /\ \E sent \in BOOLEAN :
         IF sent
         THEN /\ error_chat' = Append(error_chat, "Got error while handling email")
              /\ response' = Ok(<<>>)
         ELSE /\ response' = Err("Unable to send error message")
              /\ UNCHANGED error_chat
    /\ log' = Append(log, mail_error.msg)
    /\ mail_pc' = "done"
    /\ UNCHANGED <<parserVars, updateVars, parked>>
    /\ UNCHANGED <<now, renderVars, scheduleVars, payload, newsletter_entry,
                   saved_newsletter, saved_programs, db, channel, mail_error>>

InitMail ==
    /\ UpdateIdle /\ parked = <<>> /\ log = <<>>
    /\ ParserIdle /\ RenderIdle
    /\ error_chat = <<>>
    /\ now \in MailNows
    /\ us_pc = "idle" /\ us_newsletter = None
    /\ schedules \in ScheduleLists
    /\ last_schedule = None /\ added_schedule = None /\ deletions = {}
    /\ us_result = None
    /\ mail_pc = "verify"
    /\ payload \in Payloads
    /\ newsletter_entry = None /\ saved_newsletter = None /\ saved_programs = <<>>
    /\ db \in Databases
    /\ channel = <<>> /\ mail_error = None /\ response = None

NextMail ==
    \/ VerifySignature
    \/ CheckSender
    \/ ParseBody
    \/ SaveNewsletter
    \/ SaveProgram
    \/ SaveEntries
    \/ SendMessage
    \/ SaveMessageId
    \/ CallUpdateSchedules
    \/ ListSchedules
    \/ UpdateSchedule
    \/ DeleteSchedule
    \/ AwaitUpdateSchedules
    \/ SendErrorNotice

SpecMail == InitMail /\ [][NextMail]_vars

----------------------------------------------------------------------------
(* main.rs: several deliveries to /mail served at the same time *)

MaxDeliveries == 2   \* deliveries served at the same time

\* The locals of the delivery that is running
Locals ==
    [mail_pc |-> mail_pc, payload |-> payload, newsletter_entry |-> newsletter_entry,
     saved_newsletter |-> saved_newsletter, saved_programs |-> saved_programs,
     mail_error |-> mail_error, response |-> response,
     us_pc |-> us_pc, us_newsletter |-> us_newsletter,
     last_schedule |-> last_schedule, added_schedule |-> added_schedule,
     us_result |-> us_result]

\* A delivery that has not started
Delivery(body) ==
    [mail_pc |-> "verify", payload |-> body, newsletter_entry |-> None,
     saved_newsletter |-> None, saved_programs |-> <<>>,
     mail_error |-> None, response |-> None,
     us_pc |-> "idle", us_newsletter |-> None,
     last_schedule |-> None, added_schedule |-> None, us_result |-> None]

Resume(locals) ==
    /\ mail_pc' = locals.mail_pc
    /\ payload' = locals.payload
    /\ newsletter_entry' = locals.newsletter_entry
    /\ saved_newsletter' = locals.saved_newsletter
    /\ saved_programs' = locals.saved_programs
    /\ mail_error' = locals.mail_error
    /\ response' = locals.response
    /\ us_pc' = locals.us_pc
    /\ us_newsletter' = locals.us_newsletter
    /\ last_schedule' = locals.last_schedule
    /\ added_schedule' = locals.added_schedule
    /\ us_result' = locals.us_result

\* The positions between which handle_email has no await
Synchronous == {"sender", "parse", "schedules"}

\* The running delivery waits at an await, or has returned, and another
\* delivery goes on
Yield ==
    /\ mail_pc \notin Synchronous
    /\ \E i \in 1..Len(parked) :
         /\ parked[i].mail_pc # "done"
         /\ Resume(parked[i])
         /\ parked' = [parked EXCEPT ![i] = Locals]
    /\ UNCHANGED <<parserVars, updateVars, log, now, renderVars, schedules, deletions,
                   db, channel, error_chat>>

\* The newsletters of the deliveries: one with a show, one without programs,
\* under two links
DeliveryNewsletters ==
    <<NewsletterEntry(
          <<ProgrammingEntry(Titles[1],
                <<DateEntry(with_ymd_and_hms(2024, 10, 1, 21, 15, 0), None)>>)>>,
          "https://newsletter/link"),
      NewsletterEntry(<<>>, "https://newsletter/other")>>

\* The delivery of the k-th newsletter, signed, from an allowed sender
DeliveryPayload(k) ==
    [from |-> <<"info", "@", "cinema.it">>, token |-> "3", timestamp |-> 12,
     signature |-> HexEncode(HmacSha256(mailgun_webhook_signing_key, "123")),
     html_body |-> Ok(DeliveryNewsletters[k])]

\* The newsletters of the deliveries; the deliveries run in any order, so
\* they are listed in one order only, and the first newsletter is among them
DeliveryBodies ==
    {ks \in [1..MaxDeliveries -> 1..Len(DeliveryNewsletters)] :
        /\ ks[1] = 1
        /\ \A i \in 1..(MaxDeliveries - 1) : ks[i] <= ks[i + 1]}

\* Two schedules labelled bot_schedule: every call spawns a deletion
DeliverySchedules ==
    <<Schedule(1, BOT_SCHEDULE_LABEL, <<0, 9, 1, 1, "*">>),
      Schedule(2, BOT_SCHEDULE_LABEL, <<0, 9, 1, 1, "*">>)>>

InitDeliveries ==
    /\ UpdateIdle /\ ParserIdle /\ RenderIdle
    /\ log = <<>> /\ error_chat = <<>>
    /\ now = with_ymd_and_hms(2024, 9, 26, 12, 0, 0)
    /\ \E ks \in DeliveryBodies :
         /\ payload = DeliveryPayload(ks[1])
         /\ parked = [i \in 1..(MaxDeliveries - 1) |->
                         Delivery(DeliveryPayload(ks[i + 1]))]
    /\ mail_pc = "verify"
    /\ newsletter_entry = None /\ saved_newsletter = None /\ saved_programs = <<>>
    /\ mail_error = None /\ response = None
    /\ us_pc = "idle" /\ us_newsletter = None
    /\ last_schedule = None /\ added_schedule = None /\ us_result = None
    /\ schedules = DeliverySchedules
    /\ deletions = {}
    /\ db = [newsletter |-> <<>>, program |-> <<>>, entry |-> <<>>]
    /\ channel = <<>>

NextDeliveries ==
    \/ NextMail
    \/ Yield

SpecDeliveries == InitDeliveries /\ [][NextDeliveries]_vars

----------------------------------------------------------------------------
(* main.rs: update_latest_newsletter_message *)

\* ServerState
update_token == "update-token"

Bearers == {update_token, "other-token"}

\* lines 364-413 on the rows of the tables; the newsletter created last is
\* the last row of its table
fetch_latest_newsletter(tables) ==
    IF tables.newsletter = <<>> THEN Err("No newsletters in db")
    ELSE LET latest_newsletter == tables.newsletter[Len(tables.newsletter)]
             newsletter_programs ==
                 SelectSeq(tables.program,
                           LAMBDA p : p.newsletter_id = latest_newsletter.id)
             program_entries ==
                 [i \in 1..Len(newsletter_programs) |->
                     SelectSeq(tables.entry,
                               LAMBDA e : e.program_id = newsletter_programs[i].id)]
             programming_entries ==
                 [i \in 1..Len(newsletter_programs) |->
                     ProgrammingEntry(
                         newsletter_programs[i].title,
                         [j \in 1..Len(program_entries[i]) |->
                             DateEntry(program_entries[i][j].date,
                                       program_entries[i][j].details)])]
         IN  IF latest_newsletter.message_id = None
             THEN Err("Message id for newsletter is not set")
             ELSE Ok([newsletter |-> NewsletterEntry(programming_entries,
                                                     latest_newsletter.link),
                      message_id |-> latest_newsletter.message_id.some])

\* The tables before the update request
UpdateDatabases ==
    { [newsletter |-> <<>>, program |-> <<>>, entry |-> <<>>],
      [newsletter |-> <<[id |-> 1, link |-> "https://newsletter/link",
                         message_id |-> None]>>,
       program |-> <<>>, entry |-> <<>>],
      [newsletter |-> <<[id |-> 1, link |-> "https://newsletter/link",
                         message_id |-> Some(1)]>>,
       program |-> <<>>, entry |-> <<>>],
      [newsletter |-> <<[id |-> 1, link |-> "https://newsletter/link",
                         message_id |-> Some(1)]>>,
       program |-> <<[id |-> 1, newsletter_id |-> 1, title |-> Titles[1]],
                     [id |-> 2, newsletter_id |-> 1, title |-> Titles[2]]>>,
       entry |-> <<[id |-> 1, program_id |-> 2,
                    date |-> with_ymd_and_hms(2024, 10, 1, 21, 15, 0),
                    details |-> None],
                   [id |-> 2, program_id |-> 1,
                    date |-> with_ymd_and_hms(2024, 9, 27, 17, 0, 0),
                    details |-> Some("versione originale")],
                   [id |-> 3, program_id |-> 2,
                    date |-> with_ymd_and_hms(2024, 9, 29, 19, 30, 0),
                    details |-> None]>>],
      [newsletter |-> <<[id |-> 1, link |-> "https://newsletter/older",
                         message_id |-> Some(1)],
                        [id |-> 2, link |-> "https://newsletter/link",
                         message_id |-> Some(2)]>>,
       program |-> <<[id |-> 1, newsletter_id |-> 1, title |-> Titles[3]],
                     [id |-> 2, newsletter_id |-> 2, title |-> Titles[1]]>>,
       entry |-> <<[id |-> 1, program_id |-> 2,
                    date |-> with_ymd_and_hms(2024, 9, 29, 19, 30, 0),
                    details |-> None]>>] }

\* The channel before the update request: message 1 is there, message 2 is not
UpdateChannel ==
    <<[id |-> 1, text |-> [entries |-> <<>>, link |-> "https://newsletter/link"]]>>

\* do_update returned Err(e)
UpdateFail(e) ==
    /\ upd_error' = e
    /\ upd_pc' = "failed"

\* lines 297-331: the token, the latest newsletter, its text and the two
\* spawned tasks
FetchLatest ==
    /\ upd_pc = "start"
    /\ us_pc = "idle"
    /\ \E failed \in {"none", "newsletter", "programs", "entries"} :
         LET fetched == fetch_latest_newsletter(db)
             spawned == /\ latest' = Some([newsletter |-> fetched.value.newsletter,
                                           message_id |-> fetched.value.message_id,
                                           updated_text |->
                                               make_message(fetched.value.newsletter,
                                                            now)])
                        /\ us_newsletter' = fetched.value.newsletter
                        /\ us_pc' = "list"
                        /\ upd_pc' = "join"
                        /\ UNCHANGED upd_error
             returned(e) == UpdateFail(e) /\ UNCHANGED <<latest, us_newsletter, us_pc>>
         IN
         IF bearer.some # update_token THEN returned(Err("Invalid token"))
         ELSE IF failed = "newsletter"
         THEN returned(Err("Could not fetch latest newsletter from db"))
         ELSE IF db.newsletter = <<>> THEN returned(fetched)
         ELSE IF failed = "programs"
         THEN returned(Err("Could not fetch newsletter programs"))
         ELSE IF failed = "entries"
         THEN returned(Err("Could not fetch program entries"))
         ELSE IF fetched.kind # "ok" THEN returned(fetched)
         ELSE spawned
    /\ UNCHANGED <<parserVars, parked, log, now, renderVars, schedules, last_schedule,
                   added_schedule, deletions, us_result, mailVars, error_chat, bearer,
                   edit_result, upd_response>>

\* lines 309-320: the spawned edit_message_text task
EditMessage ==
    /\ upd_pc = "join"
    /\ edit_result = None
    /\ \E edited \in BOOLEAN :
         IF edited /\ \E i \in 1..Len(channel) : channel[i].id = latest.some.message_id
         THEN /\ channel' = [i \in 1..Len(channel) |->
                                IF channel[i].id = latest.some.message_id
                                THEN [channel[i] EXCEPT !.text = latest.some.updated_text]
                                ELSE channel[i]]
              /\ edit_result' = Ok(<<>>)
         ELSE /\ edit_result' = Err("Unable to update message")
              /\ UNCHANGED channel
    /\ UNCHANGED <<parserVars, parked, log, now, renderVars, scheduleVars, mail_pc,
                   payload, newsletter_entry, saved_newsletter, saved_programs, db,
                   mail_error, response, error_chat, upd_pc, bearer, latest, upd_error,
                   upd_response>>

\* lines 333-345: join_all and what do_update makes of the results, which
\* come in the order the tasks completed
JoinAll ==
    /\ upd_pc = "join"
    /\ edit_result # None
    /\ us_pc = "done"
    /\ \E edit_first \in BOOLEAN :
         LET schedules_result == IF us_result.kind = "ok" THEN us_result
                                 ELSE Err("Unable to update schedules")
             results == IF edit_first THEN <<edit_result, schedules_result>>
                        ELSE <<schedules_result, edit_result>>
             errors == SelectSeq(results, LAMBDA r : r.kind = "err")
             error_string == [i \in 1..Len(errors) |-> errors[i].msg]
         IN  IF Len(results) # 0
             THEN UpdateFail(Err(error_string)) /\ UNCHANGED upd_response
             ELSE /\ upd_pc' = "done"
                  /\ upd_response' = Ok(<<>>)
                  /\ UNCHANGED upd_error
    /\ UNCHANGED <<parserVars, parked, log, now, renderVars, scheduleVars, mailVars,
                   error_chat, bearer, latest, edit_result>>

\* lines 348-361: the error notice
SendUpdateErrorNotice ==
    /\ upd_pc = "failed"
    /\ \E sent \in BOOLEAN :
         IF sent
         THEN /\ error_chat' =
                    Append(error_chat, "Got error while updating newsletter message")
              /\ upd_response' = Ok(<<>>)
         ELSE /\ upd_response' = Err("Unable to send error message")
              /\ UNCHANGED error_chat
    /\ log' = Append(log, upd_error.msg)
    /\ upd_pc' = "done"
    /\ UNCHANGED <<parserVars, parked, now, renderVars, scheduleVars, mailVars, bearer,
                   latest, edit_result, upd_error>>

InitUpdate ==
    /\ ParserIdle /\ RenderIdle
    /\ parked = <<>> /\ log = <<>> /\ error_chat = <<>>
    /\ now \in Nows
    /\ us_pc = "idle" /\ us_newsletter = None
    /\ schedules \in ScheduleLists
    /\ last_schedule = None /\ added_schedule = None /\ deletions = {}
    /\ us_result = None
    /\ mail_pc = "idle" /\ payload = None /\ newsletter_entry = None
    /\ saved_newsletter = None /\ saved_programs = <<>>
    /\ db \in UpdateDatabases
    /\ channel = UpdateChannel /\ mail_error = None /\ response = None
    /\ upd_pc = "start"
    /\ bearer \in {Some(b) : b \in Bearers}
    /\ latest = None /\ edit_result = None /\ upd_error = None
    /\ upd_response = None

NextUpdate ==
    \/ FetchLatest
    \/ EditMessage
    \/ ListSchedules
    \/ UpdateSchedule
    \/ DeleteSchedule
    \/ JoinAll
    \/ SendUpdateErrorNotice

SpecUpdate == InitUpdate /\ [][NextUpdate]_vars

----------------------------------------------------------------------------
(* Vocabulary of the properties *)

Lower == date_boundaries[1]

Upper == date_boundaries[2]

Returned == result # None /\ result.kind = "ok"

Failed == result # None /\ result.kind = "err"

ResultEntries == result.value.programming_entries

InBounds(d) == DateLeq(Lower, d) /\ DateLeq(d, Upper)

\* The calendar date y-m-d exists and lies between the days of the bounds
DayInBounds(y, m, d) ==
    /\ ValidDate(y, m, d)
    /\ ~ LexLess(<<y, m, d>>, <<Lower.year, Lower.month, Lower.day>>)
    /\ ~ LexLess(<<Upper.year, Upper.month, Upper.day>>, <<y, m, d>>)

HasDayAndTimes(pair) ==
    pair.rule = "date_entry" /\ pair.day_number # None /\ pair.times # <<>>

SubjectDays == SelectSeq(subject, LAMBDA p : p.rule = "day_number")

SubjectMonthPairs == SelectSeq(subject, LAMBDA p : p.rule = "month")

----------------------------------------------------------------------------
(* C1: every DateEntry.date of a successful parse lies within [lower, upper] *)
C1_DatesWithinBounds ==
    Returned =>
        \A i \in 1..Len(ResultEntries) :
            \A j \in 1..Len(ResultEntries[i].date_entries) :
                InBounds(ResultEntries[i].date_entries[j].date)

(* C2: a date_entry whose day is in range in neither boundary month makes
   the parse return an error; it is never absent from a successful result *)
C2_Unresolvable(pair) ==
    /\ HasDayAndTimes(pair)
    /\ ~ DayInBounds(Lower.year, Lower.month, pair.day_number.some)
    /\ ~ DayInBounds(Upper.year, Upper.month, pair.day_number.some)

C2_UnresolvableDayFails ==
    (pc = "done" /\ \E k \in 1..Len(DomPairs(dom)) : C2_Unresolvable(DomPairs(dom)[k]))
        => Failed

(* C3: all-or-nothing: a NewsletterEntry is returned only if every title
   block is in it and every time of every date_entry of the block was
   resolved to a DateEntry *)
C3_AllOrNothing ==
    Returned =>
        /\ Len(ResultEntries) = Len(dom)
        /\ \A i \in 1..Len(dom) :
              /\ \A k \in 1..Len(dom[i].text) : HasDayAndTimes(dom[i].text[k])
              /\ Len(ResultEntries[i].date_entries) = SumTimes(dom[i].text)

(* C4: a date_entry with an explicit month resolves to that month at its
   day, and a parse succeeds only if that date lies within [lower, upper] *)
C4_FromPair(e, pair) ==
    /\ HasDayAndTimes(pair)
    /\ pair.day_number.some = e.date.day
    /\ pair.additional_details = e.additional_details
    /\ \E t \in 1..Len(pair.times) :
          pair.times[t].hours = e.date.hour /\ pair.times[t].minutes = e.date.minute
    /\ pair.month # None => month_name_to_number(pair.month.some) = Ok(e.date.month)

C4_ExplicitMonthKept ==
    Returned =>
        \A i \in 1..Len(dom) :
            /\ \A j \in 1..Len(ResultEntries[i].date_entries) :
                  \E k \in 1..Len(dom[i].text) :
                      C4_FromPair(ResultEntries[i].date_entries[j], dom[i].text[k])
            /\ \A k \in 1..Len(dom[i].text) :
                  LET pair == dom[i].text[k] IN
                  (HasDayAndTimes(pair) /\ pair.month # None) =>
                      \E y \in {Lower.year, Upper.year} :
                          DayInBounds(y, month_name_to_number(pair.month.some).value,
                                      pair.day_number.some)

(* C5: parse_email_body returns a NewsletterEntry or an error, it never panics *)
C5_NeverPanics == result # None => result.kind # "panic"

(* C6: a returned boundary pair has lower <= upper, lower at 00:00:00 and
   upper at 23:59:59 of their days *)
C6_BoundaryPair ==
    pc = "link" =>
        /\ Len(date_boundaries) = 2
        /\ DateLeq(Lower, Upper)
        /\ <<Lower.hour, Lower.minute, Lower.second>> = <<0, 0, 0>>
        /\ <<Upper.hour, Upper.minute, Upper.second>> = <<23, 59, 59>>

C6_Witness ==
    /\ pc = "link"
    /\ Len(SubjectMonthPairs) = 2
    /\ Lower.month = Upper.month
    /\ Lower.year < Upper.year

(* C7: year crossover: lower is in the current year Y; upper is in Y + 1 if
   its (month, day) is earlier than lower's, and in Y otherwise *)
C7_YearCrossover ==
    pc = "link" =>
        /\ Lower.day = SubjectDays[1].str
        /\ Upper.day = SubjectDays[2].str
        /\ Lower.year = year
        /\ Upper.year = IF LexLess(<<Upper.month, Upper.day>>, <<Lower.month, Lower.day>>)
                        THEN year + 1
                        ELSE year

C7_Witness ==
    /\ pc = "link"
    /\ Lower.month = 12 /\ Upper.month = 1
    /\ Upper.year = year + 1

(* C8: a date_entry without explicit month resolves to its day in lower's
   month when that date lies within the bounds, otherwise to its day in
   upper's month when that one does; the lower month wins when both do *)
C8_InLowerMonth(day) == DayInBounds(Lower.year, Lower.month, day)

C8_InUpperMonth(day) == DayInBounds(Upper.year, Upper.month, day)

C8_Bound(day) == IF C8_InLowerMonth(day) THEN Lower ELSE Upper

C8_Date(pair, t) ==
    LET b == C8_Bound(pair.day_number.some)
    IN  with_ymd_and_hms(b.year, b.month, pair.day_number.some,
                         pair.times[t].hours, pair.times[t].minutes, 0)

\* pairs the statement speaks about: no month, a candidate within the
\* bounds, every time a real local time of the resolved day
C8_Covered(pair) ==
    /\ HasDayAndTimes(pair)
    /\ pair.month = None
    /\ C8_InLowerMonth(pair.day_number.some) \/ C8_InUpperMonth(pair.day_number.some)
    /\ \A t \in 1..Len(pair.times) : C8_Date(pair, t) # None

RECURSIVE C8_Expected(_)
C8_Expected(text) ==
    IF text = <<>> THEN <<>>
    ELSE LET pair == Head(text) IN
         [t \in 1..Len(pair.times) |->
             DateEntry(C8_Date(pair, t), pair.additional_details)]
         \o C8_Expected(Tail(text))

C8_MonthResolution ==
    Returned =>
        \A i \in 1..Len(dom) :
            (\A k \in 1..Len(dom[i].text) : C8_Covered(dom[i].text[k]))
                => ResultEntries[i].date_entries = C8_Expected(dom[i].text)

C8_Witness ==
    /\ Returned
    /\ \E i \in 1..Len(dom) :
          /\ \A k \in 1..Len(dom[i].text) : C8_Covered(dom[i].text[k])
          /\ \E k \in 1..Len(dom[i].text) :
                LET day == dom[i].text[k].day_number.some IN
                /\ C8_InLowerMonth(day) /\ C8_InUpperMonth(day)
                /\ Lower.month # Upper.month
          /\ \E k \in 1..Len(dom[i].text) :
                ~ C8_InLowerMonth(dom[i].text[k].day_number.some)

(* C9: no successful parse has a ProgrammingEntry with no date_entries
   when the schedule text of its title had a date_entry with a day and a time *)
C9_NoEmptyProgrammingEntry ==
    Returned =>
        \A i \in 1..Len(dom) :
            (\E k \in 1..Len(dom[i].text) : HasDayAndTimes(dom[i].text[k]))
                => ResultEntries[i].date_entries # <<>>

(* C10: a time with hour > 23 or minute > 59, or a day that exists in
   neither boundary month, makes the parse return an error *)
C10_Invalid(pair) ==
    /\ HasDayAndTimes(pair)
    /\ \/ \E t \in 1..Len(pair.times) :
             pair.times[t].hours > 23 \/ pair.times[t].minutes > 59
       \/ /\ ~ ValidDate(Lower.year, Lower.month, pair.day_number.some)
          /\ ~ ValidDate(Upper.year, Upper.month, pair.day_number.some)

C10_InvalidTimeOrDayFails ==
    (pc = "done" /\ \E k \in 1..Len(DomPairs(dom)) : C10_Invalid(DomPairs(dom)[k]))
        => Failed

----------------------------------------------------------------------------
\* The (pair, time) positions of a schedule text from its k-th pair on, in
\* the order the grammar emits them
RECURSIVE TimeSlots(_, _)
TimeSlots(text, k) ==
    IF k > Len(text) THEN <<>>
    ELSE [t \in 1..Len(text[k].times) |-> [k |-> k, t |-> t]]
         \o TimeSlots(text, k + 1)

\* The DateEntry e shows the day, the time and the details of a slot
FromSlot(e, text, slot) ==
    LET pair == text[slot.k] IN
    /\ e.date.day = pair.day_number.some
    /\ e.date.hour = pair.times[slot.t].hours
    /\ e.date.minute = pair.times[slot.t].minutes
    /\ e.additional_details = pair.additional_details

SameDay(a, b) == <<a.year, a.month, a.day>> = <<b.year, b.month, b.day>>

(* C11: a date_entry with N times of hour <= 23 and minute <= 59 whose day
   lies within the bounds yields exactly N DateEntry values, in the order
   of its times, all on one calendar day, each with the details of the pair *)
C11_Covered(pair) ==
    /\ HasDayAndTimes(pair)
    /\ \A t \in 1..Len(pair.times) :
          pair.times[t].hours \in 0..23 /\ pair.times[t].minutes \in 0..59
    /\ \/ DayInBounds(Lower.year, Lower.month, pair.day_number.some)
       \/ DayInBounds(Upper.year, Upper.month, pair.day_number.some)

C11_FanOut ==
    Returned =>
        \A i \in 1..Len(dom) :
            (\A k \in 1..Len(dom[i].text) : C11_Covered(dom[i].text[k])) =>
                LET des == ResultEntries[i].date_entries
                    slots == TimeSlots(dom[i].text, 1)
                IN  /\ Len(des) = Len(slots)
                    /\ \A j \in 1..Len(des) : FromSlot(des[j], dom[i].text, slots[j])
                    /\ \A j, l \in 1..Len(des) :
                          slots[j].k = slots[l].k => SameDay(des[j].date, des[l].date)

(* C12: a date_entry without day number or without times makes the parse
   of its block and of the whole call fail; it is never skipped in a
   successful result *)
C12_Incomplete(pair) ==
    pair.rule = "date_entry" /\ (pair.day_number = None \/ pair.times = <<>>)

C12_IncompletePairFails ==
    (pc = "done" /\ \E k \in 1..Len(DomPairs(dom)) : C12_Incomplete(DomPairs(dom)[k]))
        => Failed

C12_Witness ==
    /\ pc = "done"
    /\ Failed
    /\ result.msg = "Unable to parse date entry"
    /\ Len(DomPairs(dom)) = 2
    /\ HasDayAndTimes(DomPairs(dom)[1])
    /\ DomPairs(dom)[2].day_number # None
    /\ DomPairs(dom)[2].times = <<>>

(* C13: parse_html returns a NewsletterEntry only if the link anchor with
   its href was found and at least one title heading, each below a tbody
   box, was matched; otherwise it returns an error *)
C13_MalformedHtmlFails ==
    Returned => (newsletter_link # None /\ dom # <<>>)

(* C14: a returned NewsletterEntry has one ProgrammingEntry per title
   heading, in document order, and each date_entries lists its entries in
   the order of the pairs and of the times within a pair, unsorted *)
C14_InEmissionOrder(des, text) ==
    LET slots == TimeSlots(text, 1) IN
    \E f \in [1..Len(des) -> 1..Len(slots)] :
        /\ \A j \in 1..Len(des) : FromSlot(des[j], text, slots[f[j]])
        /\ \A j, l \in 1..Len(des) : j < l => f[j] < f[l]

C14_DocumentOrder ==
    Returned =>
        /\ Len(ResultEntries) = Len(dom)
        /\ \A i \in 1..Len(dom) :
              /\ ResultEntries[i].title = dom[i].title
              /\ C14_InEmissionOrder(ResultEntries[i].date_entries, dom[i].text)

C14_Witness ==
    /\ Returned
    /\ Len(ResultEntries) = 2
    /\ ResultEntries[1].title # ResultEntries[2].title
    /\ \E i \in 1..2 :
          LET des == ResultEntries[i].date_entries IN
          /\ Len(des) = 2
          /\ DateLess(des[2].date, des[1].date)

(* C15: parse_subject_line_dates returns an error whenever the subject
   does not hold exactly two day_number pairs, wherever its months are *)
C15_TwoDayNumbers ==
    (pc # "subject" /\ Len(SubjectDays) # 2) => Failed

C15_Witness ==
    /\ Failed
    /\ Len(SubjectDays) = 3
    /\ Len(subject) = 4
    /\ subject[2].rule = "month"

(* C16: parse_subject_line_dates returns an error if a month pair comes
   before any day number or after more than two day numbers, at every
   position of that month pair *)
C16_DaysBefore(i) ==
    Len(SelectSeq(SubSeq(subject, 1, i - 1), LAMBDA p : p.rule = "day_number"))

C16_Misplaced(i) ==
    /\ subject[i].rule = "month"
    /\ C16_DaysBefore(i) = 0 \/ C16_DaysBefore(i) > 2

C16_MisplacedMonthFails ==
    (pc # "subject" /\ \E i \in 1..Len(subject) : C16_Misplaced(i)) => Failed

C16_Witness ==
    /\ Failed
    /\ Len(SubjectDays) = 2
    /\ C16_Misplaced(1)
    /\ \A i \in 2..Len(subject) : ~ C16_Misplaced(i)

(* C17: with one month pair both boundary dates are in that month; with
   two month pairs the first date is in the first month and the second
   date in the second month *)
C17_MonthOf(i) == month_name_to_number(SubjectMonthPairs[i].str).value

C17_MonthPairing ==
    pc = "link" =>
        /\ Len(SubjectMonthPairs) = 1 =>
              (Lower.month = C17_MonthOf(1) /\ Upper.month = C17_MonthOf(1))
        /\ Len(SubjectMonthPairs) = 2 =>
              (Lower.month = C17_MonthOf(1) /\ Upper.month = C17_MonthOf(2))

C17_Witness ==
    /\ pc = "link"
    /\ Len(SubjectMonthPairs) = 2
    /\ C17_MonthOf(1) # C17_MonthOf(2)
    /\ Lower.month = C17_MonthOf(1)
    /\ Upper.month = C17_MonthOf(2)

(* C19: format_programming_entry puts the bell on at most one date of the
   entry, and that date is not before now and no other date of the entry
   that is not before now is earlier than it, whatever the order of
   date_entries *)
C19_Date(i) == render_entry.date_entries[i].date

C19_Bells == {i \in 1..Len(rendered.dates) : rendered.dates[i].bell}

C19_BellOnNearestUpcoming ==
    rendered # None =>
        /\ Cardinality(C19_Bells) <= 1
        /\ \A i \in C19_Bells :
              /\ DateLeq(now, C19_Date(i))
              /\ \A j \in 1..Len(render_entry.date_entries) :
                    DateLeq(now, C19_Date(j)) => DateLeq(C19_Date(i), C19_Date(j))

(* C20: update_schedules arms the bot schedule at the minute, hour, day and
   month of the earliest date of the newsletter that is not before now, over
   all its programming entries; when no date is in the future no schedule's
   firing time changes *)
C20_Upcoming ==
    LET dates == FlatDates(us_newsletter.programming_entries)
    IN  {dates[i] : i \in {j \in 1..Len(dates) : DateLeq(now, dates[j])}}

C20_Earliest ==
    LET upcoming == C20_Upcoming
    IN  CHOOSE d \in upcoming : \A e \in upcoming : DateLeq(d, e)

C20_Armed(list) ==
    LET d == C20_Earliest IN
    \E i \in 1..Len(list) :
        /\ list[i].id = last_schedule.some.id
        /\ list[i].label = BOT_SCHEDULE_LABEL
        /\ list[i].interval = <<d.minute, d.hour, d.day, d.month, "*">>

C20_SameFiringTimes(before, after) ==
    \A i \in 1..Len(before), j \in 1..Len(after) :
        before[i].id = after[j].id => before[i].interval = after[j].interval

C20_ArmsEarliestUpcoming ==
    [][ us_newsletter # None =>
          /\ (us_result' # None /\ us_result'.kind = "ok")
                => (C20_Upcoming = {} \/ C20_Armed(schedules'))
          /\ C20_SameFiringTimes(schedules, schedules') \/ C20_Upcoming # {} ]_vars

C20_Witness ==
    /\ us_result # None /\ us_result.kind = "ok"
    /\ Cardinality(C20_Upcoming) = 2
    /\ FlatDates(us_newsletter.programming_entries)[1] # C20_Earliest
    /\ C20_Armed(schedules)
    /\ last_schedule.some.id = 2
    /\ Len(schedules) = 1

(* C18: in receive_newsletter_email the sender is matched only after the
   signature was verified, and the body is parsed, the rows are written and
   the channel message is sent only after both; a delivery with a bad
   signature or an unknown sender causes no parse, no database write and no
   channel message *)
C18_GoodSignature ==
    payload.signature =
        HexEncode(HmacSha256(mailgun_webhook_signing_key,
                             ToString(payload.timestamp) \o payload.token))

C18_KnownSender ==
    \E sender \in allowed_senders :
        \E i \in 1..Len(payload.from) :
            /\ i + Len(sender) - 1 <= Len(payload.from)
            /\ \A k \in 1..Len(sender) : payload.from[i + k - 1] = sender[k]

C18_AfterChecks ==
    {"parse", "persist", "programs", "send", "message_id", "schedules", "await_schedules"}

C18_ChecksBeforeEffects ==
    [][ payload # None =>
          /\ mail_pc' = "sender" => C18_GoodSignature
          /\ mail_pc' \in C18_AfterChecks => (C18_GoodSignature /\ C18_KnownSender)
          /\ ~ (C18_GoodSignature /\ C18_KnownSender) =>
                /\ newsletter_entry' = None
                /\ db' = db
                /\ channel' = channel
                /\ us_pc' = "idle" ]_vars

C18_Witness ==
    /\ mail_pc = "done"
    /\ ~ C18_GoodSignature
    /\ payload.signature # NotHex
    /\ C18_KnownSender
    /\ payload.html_body.kind = "ok"
    /\ db.newsletter = <<>>
    /\ channel = <<>>
    /\ error_chat # <<>>

----------------------------------------------------------------------------
(* C21: the rows of persist_newsletter_entry and their parents *)

\* The program rows of the newsletter row saved by the delivery
C21_Programs ==
    IF saved_newsletter = None THEN <<>>
    ELSE SelectSeq(db.program, LAMBDA p : p.newsletter_id = saved_newsletter.some)

\* The dates and details of the entry rows of one program row
C21_Entries(program_id) ==
    LET rows == SelectSeq(db.entry, LAMBDA e : e.program_id = program_id)
    IN  [i \in 1..Len(rows) |-> DateEntry(rows[i].date, rows[i].details)]

\* The states after persist_newsletter_entry returned Ok
C21_Persisted == {"send", "message_id", "schedules", "await_schedules"}

\* C21: in every state every program row names the id of a newsletter row
\* and every entry row the id of a program row; the delivery saves its
\* newsletter row before its program rows, one program row per
\* ProgrammingEntry in order, each naming the saved newsletter id, and its
\* entry rows only after all its program rows, one per DateEntry, each
\* naming the program row of the ProgrammingEntry it belongs to
C21_ParentsPersistedFirst ==
    /\ ForeignKey(db.program, "newsletter_id", db.newsletter)
    /\ ForeignKey(db.entry, "program_id", db.program)
    /\ mail_pc # "idle" =>
         LET pes == IF newsletter_entry = None THEN <<>>
                    ELSE newsletter_entry.some.programming_entries
             programs == C21_Programs
             written == \E i \in 1..Len(programs) : C21_Entries(programs[i].id) # <<>>
         IN  /\ saved_programs # <<>> => saved_newsletter # None
             /\ saved_newsletter # None =>
                   \E i \in 1..Len(db.newsletter) :
                       /\ db.newsletter[i].id = saved_newsletter.some
                       /\ db.newsletter[i].link = newsletter_entry.some.newsletter_link
             /\ Len(programs) <= Len(pes)
             /\ saved_programs = [i \in 1..Len(programs) |-> programs[i].id]
             /\ \A i \in 1..Len(programs) : programs[i].title = pes[i].title
             /\ (written \/ mail_pc \in C21_Persisted) =>
                   /\ Len(programs) = Len(pes)
                   /\ \A i \in 1..Len(programs) :
                         C21_Entries(programs[i].id) = pes[i].date_entries

\* A delivery whose second program row could not be saved: the newsletter
\* row and the first program row stay
C21_Witness ==
    /\ mail_error = Err("Unable to persist newsletter entry")
    /\ saved_newsletter # None
    /\ Len(saved_programs) = 1
    /\ Len(newsletter_entry.some.programming_entries) = 2
    /\ Len(C21_Programs) = 1

----------------------------------------------------------------------------
(* C22: an update whose two tasks succeed *)

C22_UpdateNotices ==
    {i \in 1..Len(error_chat) :
        error_chat[i] = "Got error while updating newsletter message"}

\* The request is served: the token was the update token, the latest
\* newsletter had a message id and both spawned tasks returned Ok
C22_BothSucceeded ==
    /\ upd_pc = "done"
    /\ bearer = Some(update_token)
    /\ latest # None
    /\ edit_result = Ok(<<>>)
    /\ us_result = Ok(<<>>)

\* C22: when the token is the update token, the latest newsletter has a
\* message id and both spawned tasks succeed, do_update returns Ok and no
\* error notice is sent to the error chat
C22_SuccessIsSilent ==
    C22_BothSucceeded =>
        /\ upd_error = None
        /\ C22_UpdateNotices = {}
        /\ upd_response = Ok(<<>>)

----------------------------------------------------------------------------
(* C23: deliveries of the same newsletter *)

C23_Link(locals) == locals.payload.html_body.value.newsletter_link

\* C23: whatever the deliveries and their interleaving, no two channel
\* messages carry the same newsletter link, and every channel message
\* carries the link of a newsletter row that is already persisted
C23_OneMessagePerLink ==
    \A i \in 1..Len(channel) :
        /\ \A j \in 1..Len(channel) :
              channel[i].text.link = channel[j].text.link => i = j
        /\ \E k \in 1..Len(db.newsletter) :
              db.newsletter[k].link = channel[i].text.link

\* Two deliveries of one link: one has sent the channel message, the other
\* has failed at the newsletter row
C23_Witness ==
    /\ parked # <<>>
    /\ C23_Link(Locals) = C23_Link(parked[1])
    /\ mail_error = Err("Unable to persist newsletter entry")
    /\ saved_newsletter = None
    /\ parked[1].saved_newsletter # None
    /\ \E i \in 1..Len(channel) : channel[i].text.link = C23_Link(Locals)

----------------------------------------------------------------------------
(* C24: the schedules after update_schedules and its deletions *)

C24_FutureDates ==
    LET dates == FlatDates(us_newsletter.programming_entries)
    IN  {dates[i] : i \in {j \in 1..Len(dates) : DateLeq(now, dates[j])}}

C24_BotSchedules == SelectSeq(schedules, LAMBDA x : x.label = BOT_SCHEDULE_LABEL)

\* No call of the crontap API has failed: neither list_schedules nor
\* update_schedule_by_id nor a delete_schedule_by_id of a spawned task
C24_NoApiError ==
    /\ us_result \notin {Err("Unable to list schedules from crontap"),
                         Err("Error while updating schedule")}
    /\ \A i \in 1..Len(error_chat) :
          error_chat[i] # "Got error while deleting bot schedule"
    /\ \A i \in 1..Len(log) : log[i] # "Unable to send error message"

\* update_schedules has returned and no spawned deletion is left
C24_Completed == us_pc = "done" /\ deletions = {}

\* C24: whatever schedules crontap holds, none labelled bot_schedule
\* included, once update_schedules for a newsletter with a future date and
\* its spawned deletions have completed without API error, exactly one
\* schedule is labelled bot_schedule and it is armed at the earliest
\* future date
C24_OneBotScheduleArmed ==
    (us_newsletter # None /\ C24_Completed /\ C24_NoApiError /\ C24_FutureDates # {}) =>
        LET future == C24_FutureDates
            d == CHOOSE x \in future : \A y \in future : DateLeq(x, y)
            bots == C24_BotSchedules
        IN  /\ Len(bots) = 1
            /\ bots[1].interval = <<d.minute, d.hour, d.day, d.month, "*">>

\* The same statement for the calls that find a schedule labelled bot_schedule
C24_ArmedWhenOneExists ==
    last_schedule # None => C24_OneBotScheduleArmed

----------------------------------------------------------------------------
(* C25: a failure of handle_email *)

C25_Notices ==
    {i \in 1..Len(error_chat) : error_chat[i] = "Got error while handling email"}

\* The errors of the steps of handle_email
C25_Errors ==
    {Err("Payload signature verification failed"),
     Err("Got mail from unknown sender"),
     Err("Could not parse email body"),
     Err("Unable to persist newsletter entry"),
     Err("Unable to send update message"),
     Err("Unable to update newsletter with message id"),
     Err("Unable to update schedules")}

\* What the handler has returned and what it has sent to the error chat
C25_Outcome ==
    /\ mail_error # None => mail_error \in C25_Errors
    /\ IF mail_pc # "done"
       THEN response = None /\ C25_Notices = {}
       ELSE IF mail_error = None
       THEN response = Ok(<<>>) /\ C25_Notices = {}
       ELSE \/ response = Ok(<<>>) /\ Cardinality(C25_Notices) = 1
            \/ response = Err("Unable to send error message") /\ C25_Notices = {}

====
